---- MODULE Spec2Model ----
(***************************************************************************)
(* State-machine model of src/index.py: the per-user request form          *)
(* (context.user_data), the block-list (bot_data["blocked_users"] and      *)
(* blocked_users.json) and the dispatch of a confirmed request.            *)
(*                                                                         *)
(* A text is a sequence of one-character strings.  The fixed UI labels of  *)
(* the source are long strings with an emoji; here each is abbreviated to  *)
(* a short sequence that keeps what the code can see of it: no leading or  *)
(* trailing whitespace, at least 3 characters, and a character outside     *)
(* the plate character class ("#" stands for the emoji).                   *)
(*                                                                         *)
(* A handler runs synchronously up to its first await.  Every handler but  *)
(* the "send" branch of handle_confirm_step reads and writes its state     *)
(* before its first await and only awaits replies afterwards, so it is one *)
(* action; the "send" branch is split at each of its awaits.               *)
(***************************************************************************)
EXTENDS Integers, Sequences, FiniteSets, TLC

\* ------------------------------------------------------------------ bounds
NumUsers == 2
MaxActive == 1
MaxTypes == 2
MaxLen == 3

Users == 1..NumUsers
ADMIN_IDS == {1}

None == "None"

\* ------------------------------------------------------------ source data
Step == [NUMBER |-> "number", TYPE |-> "type",
         DESCRIPTION |-> "description", CONFIRM |-> "confirm"]

TXT == [cancel      |-> <<"#", " ", "c">>,
        restart     |-> <<"#", " ", "r">>,
        send        |-> <<"#", " ", "s">>,
        edit_number |-> <<"#", " ", "n">>,
        edit_type   |-> <<"#", " ", "t">>,
        edit_desc   |-> <<"#", " ", "d">>]

PROBLEM_TYPES == << <<"l", " ", "/", " ", "e">>,
                    <<"r", " ", "/", " ", "o">>,
                    <<"k", " ", "/", " ", "h">>,
                    <<"s", " ", "/", " ", "k">>,
                    <<"i", "n", "s", "h">> >>

\* --------------------------------------------------------- text functions
LowerCase == <<"a", "b", "c", "d", "e", "h", "i", "k", "l", "n", "o", "r", "s", "t">>
UpperCase == <<"A", "B", "C", "D", "E", "H", "I", "K", "L", "N", "O", "R", "S", "T">>
Digits == {"0", "1", "2", "3"}
Whitespace == {" ", "\t"}

Range(s) == {s[i] : i \in DOMAIN s}

\* str.upper() on one character
upper_char(c) ==
  IF \E i \in DOMAIN LowerCase : LowerCase[i] = c
  THEN UpperCase[CHOOSE i \in DOMAIN LowerCase : LowerCase[i] = c]
  ELSE c

upper(s) == [i \in DOMAIN s |-> upper_char(s[i])]

\* str.strip(): drop leading and trailing whitespace
strip(s) ==
  LET keep == {i \in DOMAIN s : s[i] \notin Whitespace}
  IN IF keep = {} THEN <<>>
     ELSE LET lo == CHOOSE i \in keep : \A j \in keep : i <= j
              hi == CHOOSE i \in keep : \A j \in keep : j <= i
          IN SubSeq(s, lo, hi)

\* str.replace(c, ""): drop every occurrence of the character c
RECURSIVE remove(_, _)
remove(s, c) ==
  IF s = <<>> THEN <<>>
  ELSE IF Head(s) = c THEN remove(Tail(s), c)
       ELSE <<Head(s)>> \o remove(Tail(s), c)

normalize_plate(value) == remove(remove(upper(strip(value)), " "), "-")

\* PLATE_RE.fullmatch: 5 to 10 characters, each an uppercase letter or a digit
PlateChars == Range(UpperCase) \cup Digits
PLATE_RE_fullmatch(s) == Len(s) >= 5 /\ Len(s) <= 10 /\ Range(s) \subseteq PlateChars

looks_like_plate(value) == PLATE_RE_fullmatch(normalize_plate(value))

\* html.escape on one character, then on a text
escape_char(c) ==
  CASE c = "&"  -> <<"&", "a", "m", "p", ";">>
    [] c = "<"  -> <<"&", "l", "t", ";">>
    [] c = ">"  -> <<"&", "g", "t", ";">>
    [] c = "\"" -> <<"&", "q", "u", "o", "t", ";">>
    [] c = "'"  -> <<"&", "#", "x", "2", "7", ";">>
    [] OTHER    -> <<c>>

RECURSIVE html_escape(_)
html_escape(s) ==
  IF s = <<>> THEN <<>> ELSE escape_char(Head(s)) \o html_escape(Tail(s))

\* ------------------------------------------------------------------ state
Tasks == {1}

VARIABLES
  user_data,        \* context.user_data of every user: a dict, key -> value
  bot_data,         \* application.bot_data: [blocked_users |-> set of ids]
  blocklist_file,   \* the contents of BLOCKLIST_FILE
  TARGET_CHAT_RAW,  \* the environment's TARGET_CHAT, read once at import
  task              \* task[t]: the handler call made for the latest update:
                    \*   pc          where the coroutine is suspended, or "done"
                    \*   user, kind  who sent the update, and which handler got it
                    \*   step        user_data.get("step") when it was taken
                    \*   message     the text send_request built
                    \*   out         the replies issued so far, in order
                    \*   deliveries  the bot.send_message calls made so far
                    \*   stdout      what send_request printed

vars == <<user_data, bot_data, blocklist_file, TARGET_CHAT_RAW, task>>

\* ---------------------------------------------------- dicts (user_data)
EmptyDict == [k \in {} |-> <<>>]

SetItem(d, key, v) == [k \in (DOMAIN d) \cup {key} |-> IF k = key THEN v ELSE d[k]]

Get(d, key, default) == IF key \in DOMAIN d THEN d[key] ELSE default

\* context.user_data.get("step")
StepOf(d) == Get(d, "step", None)

\* ------------------------------------------------------- access control
is_admin(u) == u \in ADMIN_IDS

blocked_users == bot_data.blocked_users

is_blocked(u) == u \in blocked_users

\* the condition under which reject_if_blocked replies and returns True
\* variant: the gate without the is_admin exemption
reject_if_blocked_no_exemption(u) == is_blocked(u)

reject_if_blocked(u) == ~is_admin(u) /\ is_blocked(u)

\* sorted(blocked): the ascending list of a set of integers
RECURSIVE sorted(_)
sorted(S) ==
  IF S = {} THEN <<>>
  ELSE LET m == CHOOSE x \in S : \A y \in S : x <= y
       IN <<m>> \o sorted(S \ {m})

MissingFile == [kind |-> "missing", data |-> <<>>]
MalformedFile == [kind |-> "malformed", data |-> <<>>]
ListFile(data) == [kind |-> "list", data |-> data]

load_blocked_users(file) ==
  IF file.kind # "list" THEN {} ELSE Range(file.data)

\* variant: the list is written in descending order
save_blocked_users_descending(blocked) ==
  LET data == sorted(blocked)
  IN ListFile([i \in 1..Len(data) |-> data[Len(data) + 1 - i]])

save_blocked_users(blocked) == ListFile(sorted(blocked))

\* ---------------------------------------------------------- configuration
RawTargets == {"", "abc", "900"}

\* int(TARGET_CHAT_RAW) succeeds on a numeral only
get_target_chat ==
  IF TARGET_CHAT_RAW = "" THEN None
  ELSE IF TARGET_CHAT_RAW = "900" THEN "900"
  ELSE None

\* ---------------------------------------------------------------- replies
\* One reply_text call: which literal, what is interpolated, which keyboard.
Reply(text, arg, reply_markup) ==
  [text |-> text, arg |-> arg, reply_markup |-> reply_markup]

Denied == Reply("access_restricted", <<>>, "None")
AskNumber == Reply("ask_number", <<>>, "CANCEL_KB")
AskType == Reply("ask_type", <<>>, "PROBLEM_TYPES")
AskDescription == Reply("ask_description", <<>>, "ReplyKeyboardRemove")
Welcome == Reply("welcome", <<>>, "CANCEL_KB")
Help(extra) == Reply("help", <<extra>>, "None")
Cancelled == Reply("cancelled", <<>>, "ReplyKeyboardRemove")
Restarting == Reply("restarting", <<>>, "CANCEL_KB")
ChatIdReply(u) == Reply("chat_id", <<u>>, "None")
AdminOnly == Reply("admin_only", <<>>, "None")
UseStart == Reply("use_start", <<>>, "ReplyKeyboardRemove")
PlateWarning == Reply("plate_looks_unusual", <<>>, "CANCEL_KB")
ChooseType == Reply("choose_type_with_button", <<>>, "PROBLEM_TYPES")
TooShort == Reply("description_too_short", <<>>, "None")
Preview(html) == Reply("preview", html, "CONFIRM_KB")
NumberAgain == Reply("enter_number_again", <<>>, "CANCEL_KB")
ChooseAction == Reply("choose_action_with_button", <<>>, "CONFIRM_KB")
Done == Reply("done", <<>>, "ReplyKeyboardRemove")
SendFailed == Reply("send_failed", <<>>, "CONFIRM_KB")

\* ------------------------------------------------------- message composer
Dash == <<"-">>

build_preview_html(d) ==
  << html_escape(Get(d, "number", Dash)),
     html_escape(Get(d, "type", Dash)),
     html_escape(Get(d, "description", Dash)) >>

\* the sender's profile: user 1 has a username, the others a first name only
sender_label(u) == IF u = 1 THEN <<"@", u>> ELSE <<"name", u>>

\* variant: the description is read under a key the session never has
build_dispatch_html_wrong_key(d, u) ==
  [created_at  |-> "now",
   sender      |-> sender_label(u),
   plate       |-> html_escape(Get(d, "number", Dash)),
   issue_type  |-> html_escape(Get(d, "type", Dash)),
   description |-> html_escape(Get(d, "desc", Dash))]

build_dispatch_html(d, u) ==
  [created_at  |-> "now",
   sender      |-> sender_label(u),
   plate       |-> html_escape(Get(d, "number", Dash)),
   issue_type  |-> html_escape(Get(d, "type", Dash)),
   description |-> html_escape(Get(d, "description", Dash))]

NoMessage == [created_at |-> "", sender |-> <<>>, plate |-> <<>>, issue_type |-> <<>>, description |-> <<>>]

\* ------------------------------------------------------------ the session
reset_flow == SetItem(EmptyDict, "step", Step.NUMBER)

allowed == Range(PROBLEM_TYPES)

\* Each step handler: the user_data it leaves and the replies it issues.

\* variant: the identifier stored, the step moved past TYPE
handle_number_step_skips_type(d, text) ==
  LET plate == normalize_plate(text)
  IN [data    |-> SetItem(SetItem(d, "number", plate), "step", Step.DESCRIPTION),
      replies |-> (IF ~looks_like_plate(plate) THEN <<PlateWarning>> ELSE <<>>)
                  \o <<AskDescription>>]

handle_number_step(d, text) ==
  LET plate == normalize_plate(text)
  IN [data    |-> SetItem(SetItem(d, "number", plate), "step", Step.TYPE),
      replies |-> (IF ~looks_like_plate(plate) THEN <<PlateWarning>> ELSE <<>>)
                  \o <<AskType>>]

\* variant: the "return" after the re-prompt is missing
handle_type_step_no_return(d, text) ==
  [data    |-> SetItem(SetItem(d, "type", text), "step", Step.DESCRIPTION),
   replies |-> (IF text \notin allowed THEN <<ChooseType>> ELSE <<>>)
               \o <<AskDescription>>]

handle_type_step(d, text) ==
  IF text \notin allowed
  THEN [data |-> d, replies |-> <<ChooseType>>]
  ELSE [data    |-> SetItem(SetItem(d, "type", text), "step", Step.DESCRIPTION),
        replies |-> <<AskDescription>>]

\* variant: the threshold is 2
handle_description_step_min2(d, text) ==
  LET cleaned == strip(text)
  IN IF Len(cleaned) < 2
     THEN [data |-> d, replies |-> <<TooShort>>]
     ELSE LET e == SetItem(SetItem(d, "description", cleaned), "step", Step.CONFIRM)
          IN [data |-> e, replies |-> <<Preview(build_preview_html(e))>>]

handle_description_step(d, text) ==
  LET cleaned == strip(text)
  IN IF Len(cleaned) < 3
     THEN [data |-> d, replies |-> <<TooShort>>]
     ELSE LET e == SetItem(SetItem(d, "description", cleaned), "step", Step.CONFIRM)
          IN [data |-> e, replies |-> <<Preview(build_preview_html(e))>>]

\* variant: "edit number" starts the form over
handle_confirm_step_edit_resets(d, text) ==
  IF text = TXT.edit_number
  THEN [data |-> reset_flow, replies |-> <<NumberAgain>>]
  ELSE IF text = TXT.edit_type
  THEN [data |-> SetItem(d, "step", Step.TYPE), replies |-> <<AskType>>]
  ELSE IF text = TXT.edit_desc
  THEN [data |-> SetItem(d, "step", Step.DESCRIPTION), replies |-> <<AskDescription>>]
  ELSE [data |-> d, replies |-> <<ChooseAction>>]

\* handle_confirm_step for every text but TXT.send
handle_confirm_step(d, text) ==
  IF text = TXT.edit_number
  THEN [data |-> SetItem(d, "step", Step.NUMBER), replies |-> <<NumberAgain>>]
  ELSE IF text = TXT.edit_type
  THEN [data |-> SetItem(d, "step", Step.TYPE), replies |-> <<AskType>>]
  ELSE IF text = TXT.edit_desc
  THEN [data |-> SetItem(d, "step", Step.DESCRIPTION), replies |-> <<AskDescription>>]
  ELSE [data |-> d, replies |-> <<ChooseAction>>]

\* variant: only the step is dropped
cancel_flow_keeps_fields(d) ==
  [data |-> [k \in DOMAIN d \ {"step"} |-> d[k]], replies |-> <<Cancelled>>]

cancel_flow(d) == [data |-> EmptyDict, replies |-> <<Cancelled>>]

restart_flow(d) == [data |-> reset_flow, replies |-> <<Restarting, AskNumber>>]

\* variant: the step is looked at before the keywords
route_step_first(d, text) ==
  LET step == StepOf(d)
  IN IF step = Step.NUMBER THEN handle_number_step(d, text)
     ELSE IF step = Step.DESCRIPTION THEN handle_description_step(d, text)
     ELSE IF text = TXT.cancel THEN cancel_flow(d)
     ELSE IF text = TXT.restart THEN restart_flow(d)
     ELSE IF step = None THEN [data |-> d, replies |-> <<UseStart>>]
     ELSE IF step = Step.TYPE THEN handle_type_step(d, text)
     ELSE IF step = Step.CONFIRM THEN handle_confirm_step(d, text)
     ELSE restart_flow(d)

\* routing of handle_message after the ban gate, for every text that does
\* not start a dispatch
route(d, text) ==
  IF text = TXT.cancel THEN cancel_flow(d)
  ELSE IF text = TXT.restart THEN restart_flow(d)
  ELSE LET step == StepOf(d)
       IN IF step = None THEN [data |-> d, replies |-> <<UseStart>>]
          ELSE IF step = Step.NUMBER THEN handle_number_step(d, text)
          ELSE IF step = Step.TYPE THEN handle_type_step(d, text)
          ELSE IF step = Step.DESCRIPTION THEN handle_description_step(d, text)
          ELSE IF step = Step.CONFIRM THEN handle_confirm_step(d, text)
          ELSE restart_flow(d)

\* the text reaches "await send_request(update, context)"
starts_send(d, text) ==
  /\ text \notin {TXT.cancel, TXT.restart}
  /\ StepOf(d) = Step.CONFIRM
  /\ text = TXT.send

\* ------------------------------------------------------------------ inputs
\* what a user types, and the labels a keyboard sends
Typed == { <<" ">>,
           <<"a", "&">>,
           <<" ", "a", "b", "-", "1", " ", "2", "3">>,
           <<"-", "\t", "a", "b", "1", "2", "3">>,
           TXT.cancel, TXT.restart, <<" ">> \o TXT.cancel \o <<" ">> }

Texts == Typed \cup {TXT.send, TXT.edit_number, TXT.edit_type, TXT.edit_desc}
               \cup {PROBLEM_TYPES[i] : i \in 1..MaxTypes}

\* update.effective_chat.type and update.message.text (<<>>: no text)
Messages ==
  {[chat_type |-> "private", text |-> x] : x \in Texts \cup {<<>>}}
    \cup {[chat_type |-> "group", text |-> TXT.send]}

\* at most MaxActive users have a request in progress at a time
Active == {v \in Users : user_data[v] # EmptyDict}
MayOpen(u) == u \in Active \/ Cardinality(Active) < MaxActive

\* NUMBER and DESCRIPTION store whatever text they get: there the inputs are
\* the typed texts, everywhere else every text
Sendable(u, text) ==
  StepOf(user_data[u]) \in {Step.NUMBER, Step.DESCRIPTION} => text \in Typed

\* context.args of /ban and /unban: nothing, a word, or a numeral
Args == {<<>>, <<"x">>} \cup {<<ToString(i)>> : i \in Users}

\* parse_user_id_arg: the set holding the parsed id, empty for None
parse_user_id_arg(args) ==
  IF args = <<>> THEN {} ELSE {i \in Users : ToString(i) = args[1]}

\* ------------------------------------------------------------ the handlers
IdleTask == [pc |-> "none", user |-> 0, kind |-> "", step |-> None,
             message |-> NoMessage, out |-> <<>>,
             deliveries |-> <<>>, stdout |-> <<>>]

Running(t) == task[t].pc \notin {"none", "done"}

\* Updates are processed one at a time: the application is built without
\* concurrent_updates, so a handler is awaited before the next update.
Quiescent == \A t \in Tasks : ~Running(t)

\* a handler call is started for an update when the slot t is free; with the
\* single slot of Tasks that is when no handler is running
Accept(t) == ~Running(t)

NewTask(u, kind) == [IdleTask EXCEPT !.user = u, !.kind = kind,
                                     !.step = StepOf(user_data[u])]

\* The handler issues the replies rs in order and returns; a reply_text that
\* raises ends it there, so the replies issued are rs or a nonempty prefix.
Handled(t, u, kind, rs) ==
  \E n \in (IF rs = <<>> THEN {0} ELSE 1..Len(rs)) :
    task' = [task EXCEPT ![t] =
               [NewTask(u, kind) EXCEPT !.pc = "done", !.out = SubSeq(rs, 1, n)]]

Init ==
  /\ user_data = [u \in Users |-> EmptyDict]
  /\ blocklist_file \in {MissingFile, MalformedFile, ListFile(<<NumUsers, NumUsers>>)}
  /\ bot_data = [blocked_users |-> load_blocked_users(blocklist_file)]
  /\ TARGET_CHAT_RAW \in RawTargets
  /\ task = [t \in Tasks |-> IdleTask]

start(t, u) ==
  /\ Accept(t)
  /\ IF reject_if_blocked(u)
     THEN /\ Handled(t, u, "start", <<Denied>>)
          /\ UNCHANGED user_data
     ELSE /\ user_data' = [user_data EXCEPT ![u] = reset_flow]
          /\ Handled(t, u, "start", <<Welcome, AskNumber>>)
  /\ UNCHANGED <<bot_data, blocklist_file, TARGET_CHAT_RAW>>

help_cmd(t, u) ==
  /\ Accept(t)
  /\ IF reject_if_blocked(u)
     THEN Handled(t, u, "help", <<Denied>>)
     ELSE Handled(t, u, "help", <<Help(is_admin(u))>>)
  /\ UNCHANGED <<user_data, bot_data, blocklist_file, TARGET_CHAT_RAW>>

cancel(t, u) ==
  /\ Accept(t)
  /\ IF reject_if_blocked(u)
     THEN /\ Handled(t, u, "cancel", <<Denied>>)
          /\ UNCHANGED user_data
     ELSE /\ user_data' = [user_data EXCEPT ![u] = cancel_flow(user_data[u]).data]
          /\ Handled(t, u, "cancel", cancel_flow(user_data[u]).replies)
  /\ UNCHANGED <<bot_data, blocklist_file, TARGET_CHAT_RAW>>

chatid(t, u) ==
  /\ Accept(t)
  /\ IF reject_if_blocked(u)
     THEN Handled(t, u, "chatid", <<Denied>>)
     ELSE Handled(t, u, "chatid", <<ChatIdReply(u)>>)
  /\ UNCHANGED <<user_data, bot_data, blocklist_file, TARGET_CHAT_RAW>>

Usage(cmd) == Reply("usage", <<cmd>>, "None")
Blocked(user_id) == Reply("user_blocked", <<user_id>>, "None")
Unblocked(user_id) == Reply("user_unblocked", <<user_id>>, "None")
NotInBlocklist(user_id) == Reply("was_not_in_blocklist", <<user_id>>, "None")
BanlistEmpty == Reply("banlist_empty", <<>>, "None")
BanlistReply(ids) == Reply("banlist", ids, "None")

\* variant: the is_admin check is missing
ban_user_unchecked(t, u, args) ==
  /\ Accept(t)
  /\ IF parse_user_id_arg(args) = {}
     THEN /\ Handled(t, u, "ban", <<Usage("ban")>>)
          /\ UNCHANGED <<bot_data, blocklist_file>>
     ELSE LET user_id == CHOOSE i \in parse_user_id_arg(args) : TRUE
              blocked == blocked_users \cup {user_id}
          IN /\ bot_data' = [bot_data EXCEPT !.blocked_users = blocked]
             /\ blocklist_file' = save_blocked_users(blocked)
             /\ Handled(t, u, "ban", <<Blocked(user_id)>>)
  /\ UNCHANGED <<user_data, TARGET_CHAT_RAW>>

ban_user(t, u, args) ==
  /\ Accept(t)
  /\ IF ~is_admin(u)
     THEN /\ Handled(t, u, "ban", <<AdminOnly>>)
          /\ UNCHANGED <<bot_data, blocklist_file>>
     ELSE IF parse_user_id_arg(args) = {}
     THEN /\ Handled(t, u, "ban", <<Usage("ban")>>)
          /\ UNCHANGED <<bot_data, blocklist_file>>
     ELSE LET user_id == CHOOSE i \in parse_user_id_arg(args) : TRUE
              blocked == blocked_users \cup {user_id}
          IN /\ bot_data' = [bot_data EXCEPT !.blocked_users = blocked]
             /\ blocklist_file' = save_blocked_users(blocked)
             /\ Handled(t, u, "ban", <<Blocked(user_id)>>)
  /\ UNCHANGED <<user_data, TARGET_CHAT_RAW>>

\* variant: unban empties the block-list
unban_user_clears_all(t, u, args) ==
  /\ Accept(t)
  /\ IF ~is_admin(u)
     THEN /\ Handled(t, u, "unban", <<AdminOnly>>)
          /\ UNCHANGED <<bot_data, blocklist_file>>
     ELSE IF parse_user_id_arg(args) = {}
     THEN /\ Handled(t, u, "unban", <<Usage("unban")>>)
          /\ UNCHANGED <<bot_data, blocklist_file>>
     ELSE LET user_id == CHOOSE i \in parse_user_id_arg(args) : TRUE
          IN IF user_id \in blocked_users
             THEN /\ bot_data' = [bot_data EXCEPT !.blocked_users = {}]
                  /\ blocklist_file' = save_blocked_users({})
                  /\ Handled(t, u, "unban", <<Unblocked(user_id)>>)
             ELSE /\ Handled(t, u, "unban", <<NotInBlocklist(user_id)>>)
                  /\ UNCHANGED <<bot_data, blocklist_file>>
  /\ UNCHANGED <<user_data, TARGET_CHAT_RAW>>

unban_user(t, u, args) ==
  /\ Accept(t)
  /\ IF ~is_admin(u)
     THEN /\ Handled(t, u, "unban", <<AdminOnly>>)
          /\ UNCHANGED <<bot_data, blocklist_file>>
     ELSE IF parse_user_id_arg(args) = {}
     THEN /\ Handled(t, u, "unban", <<Usage("unban")>>)
          /\ UNCHANGED <<bot_data, blocklist_file>>
     ELSE LET user_id == CHOOSE i \in parse_user_id_arg(args) : TRUE
          IN IF user_id \in blocked_users
             THEN LET blocked == blocked_users \ {user_id}
                  IN /\ bot_data' = [bot_data EXCEPT !.blocked_users = blocked]
                     /\ blocklist_file' = save_blocked_users(blocked)
                     /\ Handled(t, u, "unban", <<Unblocked(user_id)>>)
             ELSE /\ Handled(t, u, "unban", <<NotInBlocklist(user_id)>>)
                  /\ UNCHANGED <<bot_data, blocklist_file>>
  /\ UNCHANGED <<user_data, TARGET_CHAT_RAW>>

banlist(t, u) ==
  /\ Accept(t)
  /\ IF ~is_admin(u)
     THEN Handled(t, u, "banlist", <<AdminOnly>>)
     ELSE IF blocked_users = {}
     THEN Handled(t, u, "banlist", <<BanlistEmpty>>)
     ELSE Handled(t, u, "banlist", <<BanlistReply(sorted(blocked_users))>>)
  /\ UNCHANGED <<user_data, bot_data, blocklist_file, TARGET_CHAT_RAW>>

\* send_request up to its first await: with no target chat it prints and
\* returns, and handle_confirm_step goes on to its completion reply.
send_request(t, u) ==
  LET target_chat == get_target_chat
      message == build_dispatch_html(user_data[u], u)
  IN IF target_chat = None
     THEN task' = [task EXCEPT ![t] =
                     [NewTask(u, "text") EXCEPT !.pc = "reply_done",
                                                !.message = message,
                                                !.stdout = <<message>>,
                                                !.out = <<Done>>]]
     ELSE task' = [task EXCEPT ![t] =
                     [NewTask(u, "text") EXCEPT
                        !.pc = "send_message",
                        !.message = message,
                        !.deliveries = <<[chat_id |-> target_chat, text |-> message,
                                          result |-> "pending"]>>]]

handle_message(t, u, chat_type, raw) ==
  /\ Accept(t)
  /\ IF chat_type # "private" \/ raw = <<>>
     THEN /\ Handled(t, u, "text", <<>>)
          /\ UNCHANGED user_data
     ELSE IF reject_if_blocked(u)
     THEN /\ Handled(t, u, "text", <<Denied>>)
          /\ UNCHANGED user_data
     ELSE LET text == strip(raw)
              d == user_data[u]
          IN IF starts_send(d, text)
             THEN /\ send_request(t, u)
                  /\ UNCHANGED user_data
             ELSE LET r == route(d, text)
                  IN /\ user_data' = [user_data EXCEPT ![u] = r.data]
                     /\ Handled(t, u, "text", r.replies)
  /\ UNCHANGED <<bot_data, blocklist_file, TARGET_CHAT_RAW>>

\* -------------------------------------- the awaits of the "send" branch
Outcomes == {"ok", "TimedOut", "error"}

SetResult(ds, res) == [ds EXCEPT ![Len(ds)].result = res]

\* variant: the retry is made after any failure of the first call
send_message_first_retries_any(t) ==
  /\ task[t].pc = "send_message"
  /\ \E res \in Outcomes :
       LET ds == SetResult(task[t].deliveries, res)
       IN IF res = "ok"
          THEN task' = [task EXCEPT ![t].deliveries = ds, ![t].pc = "reply_done",
                                    ![t].out = Append(@, Done)]
          ELSE task' = [task EXCEPT
                          ![t].deliveries =
                             Append(ds, [chat_id |-> get_target_chat,
                                         text |-> task[t].message,
                                         result |-> "pending"]),
                          ![t].pc = "retry"]
  /\ UNCHANGED <<user_data, bot_data, blocklist_file, TARGET_CHAT_RAW>>

\* the first bot.send_message returns or raises
send_message_first(t) ==
  /\ task[t].pc = "send_message"
  /\ \E res \in Outcomes :
       LET ds == SetResult(task[t].deliveries, res)
       IN IF res = "ok"
          THEN task' = [task EXCEPT ![t].deliveries = ds, ![t].pc = "reply_done",
                                    ![t].out = Append(@, Done)]
          ELSE IF res = "TimedOut"
          THEN task' = [task EXCEPT
                          ![t].deliveries =
                             Append(ds, [chat_id |-> get_target_chat,
                                         text |-> task[t].message,
                                         result |-> "pending"]),
                          ![t].pc = "retry"]
          ELSE task' = [task EXCEPT ![t].deliveries = ds, ![t].pc = "reply_failed",
                                    ![t].out = Append(@, SendFailed)]
  /\ UNCHANGED <<user_data, bot_data, blocklist_file, TARGET_CHAT_RAW>>

\* the retry returns or raises
send_message_retry(t) ==
  /\ task[t].pc = "retry"
  /\ \E res \in Outcomes :
       LET ds == SetResult(task[t].deliveries, res)
       IN IF res = "ok"
          THEN task' = [task EXCEPT ![t].deliveries = ds, ![t].pc = "reply_done",
                                    ![t].out = Append(@, Done)]
          ELSE task' = [task EXCEPT ![t].deliveries = ds, ![t].pc = "reply_failed",
                                    ![t].out = Append(@, SendFailed)]
  /\ UNCHANGED <<user_data, bot_data, blocklist_file, TARGET_CHAT_RAW>>

\* variant: the clear after the completion reply empties every user's session
reply_done_clears_all(t) ==
  /\ task[t].pc = "reply_done"
  /\ \E ok \in BOOLEAN :
       IF ok
       THEN /\ user_data' = [v \in Users |-> EmptyDict]
            /\ task' = [task EXCEPT ![t].pc = "done"]
       ELSE /\ task' = [task EXCEPT ![t].pc = "reply_failed",
                                    ![t].out = Append(@, SendFailed)]
            /\ UNCHANGED user_data
  /\ UNCHANGED <<bot_data, blocklist_file, TARGET_CHAT_RAW>>

\* the completion reply returns, and user_data is cleared; or it raises
reply_done(t) ==
  /\ task[t].pc = "reply_done"
  /\ \E ok \in BOOLEAN :
       IF ok
       THEN /\ user_data' = [user_data EXCEPT ![task[t].user] = EmptyDict]
            /\ task' = [task EXCEPT ![t].pc = "done"]
       ELSE /\ task' = [task EXCEPT ![t].pc = "reply_failed",
                                    ![t].out = Append(@, SendFailed)]
            /\ UNCHANGED user_data
  /\ UNCHANGED <<bot_data, blocklist_file, TARGET_CHAT_RAW>>

\* the failure reply of the except branch returns or raises: the handler ends
reply_failed(t) ==
  /\ task[t].pc = "reply_failed"
  /\ task' = [task EXCEPT ![t].pc = "done"]
  /\ UNCHANGED <<user_data, bot_data, blocklist_file, TARGET_CHAT_RAW>>

Next ==
  \E t \in Tasks :
    \/ \E u \in Users : MayOpen(u) /\ start(t, u)
    \/ \E u \in Users : help_cmd(t, u)
    \/ \E u \in Users : cancel(t, u)
    \/ \E u \in Users : chatid(t, u)
    \/ \E u \in Users, args \in Args : ban_user(t, u, args)
    \/ \E u \in Users, args \in Args : unban_user(t, u, args)
    \/ \E u \in Users : banlist(t, u)
    \/ \E u \in Users, m \in Messages :
         /\ strip(m.text) = TXT.restart => MayOpen(u)
         /\ Sendable(u, m.text)
         /\ handle_message(t, u, m.chat_type, m.text)
    \/ send_message_first(t)
    \/ send_message_retry(t)
    \/ reply_done(t)
    \/ reply_failed(t)

\* ---- handlers of different users interleaved at their awaits
\* (an application that takes the next update while a handler is suspended;
\* the updates of one user are still handled in order).  Slot u holds the
\* handler call of user u; the block-list is held fixed.
InterleavedTexts ==
  { <<" ", "a", "b", "-", "1", " ", "2", "3">>,
    PROBLEM_TYPES[1], TXT.send, TXT.cancel }

InitInterleaved ==
  /\ user_data = [u \in Users |-> EmptyDict]
  /\ blocklist_file = MissingFile
  /\ bot_data = [blocked_users |-> load_blocked_users(blocklist_file)]
  /\ TARGET_CHAT_RAW \in {"", "900"}
  /\ task = [u \in Users |-> IdleTask]

NextInterleaved ==
  \E u \in Users :
    \/ start(u, u)
    \/ \E text \in InterleavedTexts : handle_message(u, u, "private", text)
    \/ send_message_first(u)
    \/ send_message_retry(u)
    \/ reply_done(u)
    \/ reply_failed(u)

SpecInterleaved == InitInterleaved /\ [][NextInterleaved]_vars

\* ---- two handler calls for the messages of one user, interleaved at their
\* awaits (an application that takes the next update of a user while a handler
\* of that user is suspended); the block-list is held fixed.
Handlers == {1, 2}

SameUserTexts ==
  { <<" ", "a", "b", "-", "1", " ", "2", "3">>,
    PROBLEM_TYPES[1], TXT.send, TXT.edit_number }

InitSameUser ==
  /\ user_data = [u \in Users |-> EmptyDict]
  /\ blocklist_file = MissingFile
  /\ bot_data = [blocked_users |-> load_blocked_users(blocklist_file)]
  /\ TARGET_CHAT_RAW \in {"", "900"}
  /\ task = [t \in Handlers |-> IdleTask]

\* a new handler call takes the lowest slot that is free
LowestFree(t) == Accept(t) /\ \A s \in Handlers : s < t => Running(s)

NextSameUser ==
  \E t \in Handlers :
    \/ \E u \in Users : LowestFree(t) /\ MayOpen(u) /\ start(t, u)
    \/ \E u \in Active, text \in SameUserTexts :
         /\ LowestFree(t)
         /\ Sendable(u, text)
         /\ handle_message(t, u, "private", text)
    \/ send_message_first(t)
    \/ send_message_retry(t)
    \/ reply_done(t)
    \/ reply_failed(t)

SpecSameUser == InitSameUser /\ [][NextSameUser]_vars

\* ---- the identifier step on every short text
\* letters, digits, space, hyphen and another whitespace character
PlateAlphabet == {"a", "1", " ", "-", "\t"}

TextsUpTo(n) == UNION {[1..k -> PlateAlphabet] : k \in 0..n}

InitNumber ==
  /\ user_data = [u \in Users |-> reset_flow]
  /\ blocklist_file = MissingFile
  /\ bot_data = [blocked_users |-> load_blocked_users(blocklist_file)]
  /\ TARGET_CHAT_RAW = ""
  /\ task = [t \in Tasks |-> IdleTask]

\* a user at NUMBER sends a text of at most MaxLen characters
NextNumber ==
  \E t \in Tasks, u \in Users, value \in TextsUpTo(MaxLen) :
    /\ StepOf(user_data[u]) = Step.NUMBER
    /\ handle_message(t, u, "private", value)

SpecNumber == InitNumber /\ [][NextNumber]_vars

Spec == Init /\ [][Next]_vars

\* ================================================================ claims
Fields == {"number", "type", "description"}

\* the user's dict before and after the step
D(u) == user_data[u]
Dn(u) == user_data'[u]

\* the step is the start of the handler that task t runs for an update of
\* user u (every handler records its user and kind when it takes the update)
Took(t, u, kind) == Quiescent /\ task'[t].user = u /\ task'[t].kind = kind

\* that update is the text m and it reaches the step handlers: a private chat,
\* a text, u not refused, the stripped text neither of the global keywords
TextAt(t, u, m) ==
  /\ m.chat_type = "private"
  /\ m.text # <<>>
  /\ ~reject_if_blocked(u)
  /\ strip(m.text) \notin {TXT.cancel, TXT.restart}
  /\ handle_message(t, u, m.chat_type, m.text)

\* no send_request was started for the update of task t
NoDispatch(t) == task'[t].deliveries = <<>> /\ task'[t].stdout = <<>>

\* the dict e is the dict d but for the keys in ks
SameBut(d, e, ks) ==
  /\ DOMAIN e \ ks = DOMAIN d \ ks
  /\ \A k \in DOMAIN d \ ks : e[k] = d[k]

FiveLabels == {PROBLEM_TYPES[i] : i \in 1..5}

\* C4 as stated: at TYPE the session advances to DESCRIPTION iff the text
\* is one of the five labels (category := text); any other text keeps the step
\* at TYPE, leaves category unset and re-emits the same category prompt.
C4_Original ==
  [][\A t \in Tasks, u \in Users :
       Took(t, u, "text") /\ StepOf(D(u)) = Step.TYPE =>
         \A m \in Messages :
           TextAt(t, u, m) =>
             LET text == strip(m.text)
             IN /\ StepOf(Dn(u)) = Step.DESCRIPTION <=> text \in FiveLabels
                /\ text \in FiveLabels => Get(Dn(u), "type", None) = text
                /\ text \notin FiveLabels =>
                     /\ StepOf(Dn(u)) = Step.TYPE
                     /\ "type" \notin DOMAIN Dn(u)
                     /\ task'[t].out = <<AskType>>]_vars

\* C4 amended: at TYPE the session advances to DESCRIPTION iff the text is one
\* of the five labels (category := text, identifier and description as they
\* were); any other text leaves the whole session as it was (category keeps
\* the value it had, unset or not) and the re-prompt that is emitted carries
\* the category keyboard of the first prompt under a wording of its own.
C4_TypeStep ==
  [][\A t \in Tasks, u \in Users :
       Took(t, u, "text") /\ StepOf(D(u)) = Step.TYPE =>
         \A m \in Messages :
           TextAt(t, u, m) =>
             LET text == strip(m.text)
             IN /\ StepOf(Dn(u)) = Step.DESCRIPTION <=> text \in FiveLabels
                /\ text \in FiveLabels =>
                     /\ "type" \in DOMAIN Dn(u) /\ Dn(u)["type"] = text
                     /\ SameBut(D(u), Dn(u), {"step", "type"})
                /\ text \notin FiveLabels =>
                     /\ Dn(u) = D(u)
                     /\ Len(task'[t].out) = 1
                     /\ task'[t].out[1].reply_markup = AskType.reply_markup
                     /\ task'[t].out[1].text # AskType.text
                /\ NoDispatch(t)]_vars

\* a text was turned down at TYPE while a category was stored, and the
\* session still holds that category
C4_Witness ==
  \E t \in Tasks :
    /\ task[t].pc = "done" /\ task[t].kind = "text" /\ task[t].step = Step.TYPE
    /\ task[t].out = <<ChooseType>>
    /\ StepOf(D(task[t].user)) = Step.TYPE
    /\ "type" \in DOMAIN D(task[t].user)

\* C5 as stated: at DESCRIPTION a text whose trimmed length is under 3
\* keeps the step and leaves description unset; a longer one moves the step to
\* CONFIRM, stores the trimmed text and emits the preview.
C5_Original ==
  [][\A t \in Tasks, u \in Users :
       Took(t, u, "text") /\ StepOf(D(u)) = Step.DESCRIPTION =>
         \A m \in Messages :
           TextAt(t, u, m) =>
             LET trimmed == strip(m.text)
             IN IF Len(trimmed) < 3
                THEN /\ StepOf(Dn(u)) = Step.DESCRIPTION
                     /\ "description" \notin DOMAIN Dn(u)
                ELSE /\ StepOf(Dn(u)) = Step.CONFIRM
                     /\ Get(Dn(u), "description", None) = trimmed
                     /\ Len(task'[t].out) = 1
                     /\ task'[t].out[1].text = "preview"]_vars

\* C5 amended: at DESCRIPTION a text whose trimmed length is under 3 leaves
\* the whole session as it was (description keeps the value it had, unset or
\* not); a longer one moves the step to CONFIRM, stores the trimmed text and
\* emits the preview of the three fields.
C5_DescriptionStep ==
  [][\A t \in Tasks, u \in Users :
       Took(t, u, "text") /\ StepOf(D(u)) = Step.DESCRIPTION =>
         \A m \in Messages :
           TextAt(t, u, m) =>
             LET trimmed == strip(m.text)
             IN /\ IF Len(trimmed) < 3
                   THEN /\ Dn(u) = D(u)
                        /\ task'[t].out = <<TooShort>>
                   ELSE /\ StepOf(Dn(u)) = Step.CONFIRM
                        /\ "description" \in DOMAIN Dn(u)
                        /\ Dn(u)["description"] = trimmed
                        /\ SameBut(D(u), Dn(u), {"step", "description"})
                        /\ Len(task'[t].out) = 1
                        /\ task'[t].out[1].text = "preview"
                        /\ task'[t].out[1].reply_markup = "CONFIRM_KB"
                        /\ task'[t].out[1].arg[3] = html_escape(trimmed)
                /\ NoDispatch(t)]_vars

\* a short text was turned down at DESCRIPTION while a description was stored
C5_Witness ==
  \E t \in Tasks :
    /\ task[t].pc = "done" /\ task[t].kind = "text"
    /\ task[t].step = Step.DESCRIPTION
    /\ task[t].out = <<TooShort>>
    /\ "description" \in DOMAIN D(task[t].user)

\* C6: at NUMBER every text moves the step to TYPE and is stored normalized;
\* the warning is emitted before the category prompt iff the normalized text is
\* not 5 to 10 characters of the plate character set.
C6_NumberStep ==
  [][\A t \in Tasks, u \in Users :
       Took(t, u, "text") /\ StepOf(D(u)) = Step.NUMBER =>
         \A m \in Messages :
           TextAt(t, u, m) =>
             LET normalized == remove(remove(upper(strip(m.text)), " "), "-")
                 plate == /\ Len(normalized) \in 5..10
                          /\ \A i \in DOMAIN normalized : normalized[i] \in PlateChars
             IN /\ StepOf(Dn(u)) = Step.TYPE
                /\ Get(Dn(u), "number", None) = normalized
                /\ (PlateWarning \in Range(task'[t].out)) <=> ~plate]_vars

\* user u's update reaches a handler that starts with reject_if_blocked: a
\* start, help, cancel or chatid command, or a text in a private chat
Gated(t, u) ==
  LET kind == task'[t].kind
  IN \/ kind = "start" /\ start(t, u)
     \/ kind = "help" /\ help_cmd(t, u)
     \/ kind = "cancel" /\ cancel(t, u)
     \/ kind = "chatid" /\ chatid(t, u)
     \/ /\ kind = "text"
        /\ \E m \in Messages :
             /\ m.chat_type = "private" /\ m.text # <<>>
             /\ handle_message(t, u, m.chat_type, m.text)

Banned(u) == u \in bot_data.blocked_users /\ u \notin ADMIN_IDS

\* C1: an update of a banned, unprivileged user to a gated handler has the
\* denial reply as its only effect: no session, block-list or file change and
\* no dispatch; a privileged user is never sent the denial, banned or not.
C1_BannedRefused ==
  [][\A t \in Tasks, u \in Users :
       /\ Quiescent /\ task'[t].user = u
       /\ Banned(u) \/ u \in ADMIN_IDS
       /\ Gated(t, u)
       => /\ Banned(u) =>
               /\ user_data' = user_data
               /\ bot_data' = bot_data
               /\ blocklist_file' = blocklist_file
               /\ task'[t].pc = "done"
               /\ task'[t].out = <<Denied>>
               /\ NoDispatch(t)
          /\ u \in ADMIN_IDS => Denied \notin Range(task'[t].out)]_vars

\* a user banned in the middle of a request is refused and keeps the session;
\* the privileged user is banned too
C1_Witness ==
  \E t \in Tasks :
    /\ task[t].pc = "done" /\ task[t].kind = "text"
    /\ task[t].out = <<Denied>>
    /\ task[t].step = Step.TYPE
    /\ StepOf(D(task[t].user)) = Step.TYPE
    /\ task[t].user \in bot_data.blocked_users
    /\ ADMIN_IDS \subseteq bot_data.blocked_users

\* the dispatch of task t delivered the request: printed, or sent
Delivered(t) ==
  \/ task[t].stdout # <<>>
  \/ \E i \in DOMAIN task[t].deliveries : task[t].deliveries[i].result = "ok"

\* task t ran the "send" branch of handle_confirm_step
SendTask(t) == task[t].kind = "text" /\ task[t].message # NoMessage

\* C2: once the handler of a "send" at CONFIRM has ended, a dispatch that
\* succeeded has cleared the session and the completion message was emitted; a
\* dispatch that failed has left the step at CONFIRM with the three fields as
\* they were sent, and the failure message was emitted.
C2_SendOutcome ==
  \A t \in Tasks :
    SendTask(t) /\ task[t].pc = "done" =>
      LET d == D(task[t].user)
      IN IF Delivered(t)
         THEN d = EmptyDict /\ task[t].out = <<Done>>
         ELSE /\ StepOf(d) = Step.CONFIRM
              /\ Fields \subseteq DOMAIN d
              /\ task[t].message.plate = html_escape(d["number"])
              /\ task[t].message.issue_type = html_escape(d["type"])
              /\ task[t].message.description = html_escape(d["description"])
              /\ task[t].out = <<SendFailed>>

\* C3: a dispatch makes at most two send_message calls, only with a target
\* chat; the second is made iff the first timed out and carries the same chat
\* and text; a first call that fails otherwise, or a second that fails, ends
\* the dispatch in the failure branch; a call that succeeds ends it in the
\* completion branch.
C3_RetryOnce ==
  \A t \in Tasks :
    LET ds == task[t].deliveries
        n == Len(ds)
    IN /\ n <= 2
       /\ n >= 1 => TARGET_CHAT_RAW = "900" /\ ds[1].chat_id = "900"
       /\ n = 2 <=> (n >= 1 /\ ds[1].result = "TimedOut")
       /\ n = 2 => ds[2].text = ds[1].text /\ ds[2].chat_id = ds[1].chat_id
       /\ n >= 1 =>
            CASE ds[n].result = "pending" ->
                   task[t].pc = (IF n = 1 THEN "send_message" ELSE "retry")
              [] ds[n].result = "ok" ->
                   /\ task[t].pc \in {"reply_done", "reply_failed", "done"}
                   /\ task[t].out[1] = Done
              [] OTHER ->
                   /\ n = 1 => ds[1].result = "error"
                   /\ task[t].pc \in {"reply_failed", "done"}
                   /\ task[t].out = <<SendFailed>>

\* two timeouts in a row: the dispatch ended after the second call
C3_Witness ==
  \E t \in Tasks :
    /\ task[t].pc = "done"
    /\ Len(task[t].deliveries) = 2
    /\ task[t].deliveries[2].result = "TimedOut"
    /\ task[t].out = <<SendFailed>>

\* the step an edit label of the confirm keyboard leads to
EditTarget(text) ==
  CASE text = TXT.edit_number -> Step.NUMBER
    [] text = TXT.edit_type   -> Step.TYPE
    [] text = TXT.edit_desc   -> Step.DESCRIPTION
    [] OTHER                  -> None

\* C7: at CONFIRM an edit label changes the step to its target and nothing
\* else of the session; a text that is neither "send" nor an edit label (nor a
\* global keyword) changes nothing of the session; neither starts a dispatch.
C7_ConfirmEdits ==
  [][\A t \in Tasks, u \in Users :
       Took(t, u, "text") /\ StepOf(D(u)) = Step.CONFIRM =>
         \A m \in Messages :
           TextAt(t, u, m) /\ strip(m.text) # TXT.send =>
             LET text == strip(m.text)
             IN /\ NoDispatch(t)
                /\ task'[t].pc = "done"
                /\ IF EditTarget(text) # None
                   THEN /\ StepOf(Dn(u)) = EditTarget(text)
                        /\ SameBut(D(u), Dn(u), {"step"})
                        /\ Fields \subseteq DOMAIN Dn(u)
                   ELSE Dn(u) = D(u)]_vars

\* "edit number" was taken at CONFIRM: the step is NUMBER and the three
\* fields are still there
C7_Witness ==
  \E t \in Tasks :
    /\ task[t].pc = "done" /\ task[t].kind = "text"
    /\ task[t].step = Step.CONFIRM
    /\ task[t].out = <<NumberAgain>>
    /\ StepOf(D(task[t].user)) = Step.NUMBER
    /\ Fields \subseteq DOMAIN D(task[t].user)

\* C8: for a user who is not refused, in whatever step, the cancel keyword
\* leaves the session empty and the restart keyword leaves it with the step
\* NUMBER and no field; neither starts a dispatch.
C8_Keywords ==
  [][\A t \in Tasks, u \in Users :
       Took(t, u, "text") /\ ~Banned(u) =>
         \A m \in Messages :
           /\ m.chat_type = "private" /\ m.text # <<>>
           /\ strip(m.text) \in {TXT.cancel, TXT.restart}
           /\ handle_message(t, u, m.chat_type, m.text)
           => /\ NoDispatch(t)
              /\ task'[t].pc = "done"
              /\ strip(m.text) = TXT.cancel => DOMAIN Dn(u) = {}
              /\ strip(m.text) = TXT.restart =>
                   /\ DOMAIN Dn(u) = {"step"}
                   /\ Dn(u)["step"] = Step.NUMBER]_vars

\* the restart keyword was taken at CONFIRM: the three fields are gone
C8_Witness ==
  \E t \in Tasks :
    /\ task[t].pc = "done" /\ task[t].kind = "text"
    /\ task[t].step = Step.CONFIRM
    /\ task[t].out = <<Restarting, AskNumber>>
    /\ D(task[t].user) = SetItem(EmptyDict, "step", Step.NUMBER)

\* what may have changed the step of user u in the step taken
ByStartOrRestart(u) ==
  \E t \in Tasks :
    \/ start(t, u)
    \/ \E m \in Messages :
         strip(m.text) = TXT.restart /\ handle_message(t, u, m.chat_type, m.text)

ByCancel(u) ==
  \E t \in Tasks :
    \/ cancel(t, u)
    \/ \E m \in Messages :
         strip(m.text) = TXT.cancel /\ handle_message(t, u, m.chat_type, m.text)

ByEdit(u, target) ==
  \E t \in Tasks, m \in Messages :
    /\ EditTarget(strip(m.text)) = target
    /\ handle_message(t, u, m.chat_type, m.text)

BySuccessfulDispatch(u) ==
  \E t \in Tasks : task[t].user = u /\ Delivered(t) /\ reply_done(t)

\* C9: the step of a session changes only along: anything to NUMBER by
\* start or restart, NUMBER to TYPE, TYPE to DESCRIPTION, DESCRIPTION to
\* CONFIRM, CONFIRM to the target of an edit label, anything to unset by cancel,
\* CONFIRM to unset by a dispatch that succeeded; a text that is no keyword
\* changes nothing of an idle session; the step is unset or one of the four.
C9_Transitions ==
  [][\A u \in Users :
       LET a == StepOf(D(u))
           b == StepOf(Dn(u))
       IN /\ b \in {None, Step.NUMBER, Step.TYPE, Step.DESCRIPTION, Step.CONFIRM}
          /\ a # b =>
               \/ b = Step.NUMBER /\ ByStartOrRestart(u)
               \/ a = Step.NUMBER /\ b = Step.TYPE
               \/ a = Step.TYPE /\ b = Step.DESCRIPTION
               \/ a = Step.DESCRIPTION /\ b = Step.CONFIRM
               \/ a = Step.CONFIRM /\ b # None /\ ByEdit(u, b)
               \/ b = None /\ ByCancel(u)
               \/ a = Step.CONFIRM /\ b = None /\ BySuccessfulDispatch(u)
          /\ (a = None /\ Dn(u) # D(u)) => ByStartOrRestart(u)]_vars

\* a dispatch that succeeded took the session from CONFIRM back to idle
C9_Witness ==
  \E t \in Tasks :
    /\ task[t].pc = "done" /\ SendTask(t)
    /\ task[t].step = Step.CONFIRM
    /\ task[t].out = <<Done>>
    /\ task[t].deliveries # <<>>
    /\ D(task[t].user) = EmptyDict

\* the fields a step needs
StepFields(d) ==
  LET s == StepOf(d)
  IN /\ s = None => DOMAIN d = {}
     /\ s = Step.TYPE => "number" \in DOMAIN d
     /\ s = Step.DESCRIPTION => {"number", "type"} \subseteq DOMAIN d
     /\ s = Step.CONFIRM => Fields \subseteq DOMAIN d

\* C10: in every state a session without a step has no field, at TYPE it has
\* the identifier, at DESCRIPTION the identifier and the category, at CONFIRM
\* all three; and no step writes a field of a session that is idle.
C10_StepFields ==
  /\ [](\A u \in Users : StepFields(D(u)))
  /\ [][\A u \in Users :
          StepOf(D(u)) = None => DOMAIN Dn(u) \cap Fields = {}]_vars

\* a session on its way forward: at DESCRIPTION with the identifier and the
\* category, the description not yet written
C10_Witness ==
  \E u \in Users :
    /\ StepOf(D(u)) = Step.DESCRIPTION
    /\ DOMAIN D(u) = {"step", "number", "type"}

\* the dispatch of task t found no recipient: TARGET_CHAT empty or no numeral
NoRecipient(t) == SendTask(t) /\ get_target_chat = None

\* the dispatch without a recipient: no send_message call, the rendered message
\* printed once, the completion branch taken
FallbackDispatch(t) ==
  /\ task[t].deliveries = <<>>
  /\ task[t].stdout = <<task[t].message>>
  /\ task[t].out[1] = Done

\* C11: with no recipient configured every dispatch makes no send_message
\* call, prints the rendered message and reports success; once the handler of
\* that "send" has ended, the session is cleared.
C11_NoRecipient ==
  \A t \in Tasks :
    NoRecipient(t) =>
      /\ FallbackDispatch(t)
      /\ task[t].pc = "done" => D(task[t].user) = EmptyDict

\* context.args holding the numeral of the id
Numeral(id) == <<ToString(id)>>

\* the block-list after the step
BanListNext == bot_data'.blocked_users

\* the step is the privileged user u's "ban id" / "unban id" taken by task t
AdminBan(t, u, id) ==
  /\ Took(t, u, "ban") /\ is_admin(u) /\ ban_user(t, u, Numeral(id))

AdminUnban(t, u, id) ==
  /\ Took(t, u, "unban") /\ is_admin(u) /\ unban_user(t, u, Numeral(id))

\* C12: for a privileged user and every id: after ban(id) the id is in the
\* block-list, after unban(id) it is not; unban of an absent id reports "not in
\* the block-list" and changes nothing; no other id changes membership.
C12_RoundTrip ==
  [][\A t \in Tasks, u \in Users, id \in Users :
       /\ AdminBan(t, u, id) =>
            /\ id \in BanListNext
            /\ BanListNext \ {id} = blocked_users \ {id}
       /\ AdminUnban(t, u, id) =>
            /\ id \notin BanListNext
            /\ BanListNext \ {id} = blocked_users \ {id}
            /\ id \notin blocked_users =>
                 /\ BanListNext = blocked_users
                 /\ task'[t].out = <<NotInBlocklist(id)>>]_vars

\* an unban took one id out of a block-list of two: the other is still there
C12_Witness ==
  \E t \in Tasks, id \in Users :
    /\ task[t].pc = "done" /\ task[t].kind = "unban"
    /\ task[t].out = <<Unblocked(id)>>
    /\ id \notin blocked_users
    /\ blocked_users # {}

\* C13: a redundant mutation is a no-op with a signal of its own: ban of an id
\* already in the block-list changes neither the set nor the file and its reply
\* is not the reply of a fresh ban; unban of an absent id changes neither and
\* reports "not in the block-list".
C13_RedundantNoOp ==
  [][\A t \in Tasks, u \in Users, id \in Users :
       /\ AdminBan(t, u, id) /\ id \in blocked_users =>
            /\ bot_data' = bot_data
            /\ blocklist_file' = blocklist_file
            /\ task'[t].out # <<Blocked(id)>>
       /\ AdminUnban(t, u, id) /\ id \notin blocked_users =>
            /\ bot_data' = bot_data
            /\ blocklist_file' = blocklist_file
            /\ task'[t].out = <<NotInBlocklist(id)>>]_vars

\* the step is a ban, unban or banlist command of user u taken by task t
AdminCommand(t, u) ==
  LET kind == task'[t].kind
  IN \/ kind = "ban" /\ \E args \in Args : ban_user(t, u, args)
     \/ kind = "unban" /\ \E args \in Args : unban_user(t, u, args)
     \/ kind = "banlist" /\ banlist(t, u)

\* C14: a ban, unban or banlist command of an unprivileged user gets the
\* admin-only reply and changes neither the block-list nor the file, whatever
\* the argument; the block-list changes only in a ban or unban of a privileged
\* user with a numeral as argument.
C14_AdminOnly ==
  [][/\ \A t \in Tasks, u \in Users \ ADMIN_IDS :
          Quiescent /\ task'[t].user = u /\ AdminCommand(t, u) =>
            /\ task'[t].out = <<AdminOnly>>
            /\ bot_data' = bot_data
            /\ blocklist_file' = blocklist_file
     /\ bot_data' # bot_data =>
          \E t \in Tasks, u \in ADMIN_IDS, id \in Users :
            AdminBan(t, u, id) \/ AdminUnban(t, u, id)]_vars

\* an unprivileged user's ban was turned down while the block-list holds an id
C14_Witness ==
  \E t \in Tasks :
    /\ task[t].pc = "done" /\ task[t].kind = "ban"
    /\ task[t].user \notin ADMIN_IDS
    /\ task[t].out = <<AdminOnly>>
    /\ blocked_users # {}

\* the file holds the block-list as an ascending list
Agree == blocklist_file = ListFile(sorted(blocked_users))

C16_Idempotent ==
  \A u \in Users :
    "number" \in DOMAIN D(u) =>
      normalize_plate(D(u)["number"]) = D(u)["number"]

\* the send_message calls of task t that returned
OkDeliveries(t) ==
  {i \in DOMAIN task[t].deliveries : task[t].deliveries[i].result = "ok"}

\* the message of task t renders an identifier, one of the five categories
\* and a description of at least 3 characters
RendersRequest(t) ==
  /\ \E c \in FiveLabels : task[t].message.issue_type = html_escape(c)
  /\ Len(task[t].message.description) >= 3
  /\ task[t].message.sender = sender_label(task[t].user)

\* C17: end to end: once the handler of a "send" whose delivery succeeded has
\* ended, exactly one delivery was made, its payload is the rendered request
\* (an identifier, one of the five categories, a description of at least 3
\* characters, the sender), and the session is idle.
C17_EndToEnd ==
  \A t \in Tasks :
    SendTask(t) /\ task[t].pc = "done" /\ OkDeliveries(t) # {} =>
      /\ Cardinality(OkDeliveries(t)) = 1
      /\ \A i \in OkDeliveries(t) : task[t].deliveries[i].text = task[t].message
      /\ RendersRequest(t)
      /\ D(task[t].user) = EmptyDict

\* C19: a delivered request is never left retryable: once a send_message
\* call has returned and the handler has ended, the session is cleared and the
\* failure message was not sent, whatever happened to the completion reply.
C19_NotRetryable ==
  \A t \in Tasks :
    OkDeliveries(t) # {} /\ task[t].pc = "done" =>
      /\ "step" \notin DOMAIN D(task[t].user)
      /\ SendFailed \notin Range(task[t].out)

\* the step starts a dispatch for user u in task t
StartsDispatch(t, u) == Took(t, u, "text") /\ task'[t].message # NoMessage

\* C20: when a dispatch starts the session has the three fields, the category
\* is one of the five labels and the description has a trimmed length of 3 or
\* more; the payload is rendered (HTML-escaped) from the fields as they are in
\* the state the "send" is taken in, with no "-" placeholder, and every
\* send_message call and the console get that payload.
C20_PayloadComplete ==
  /\ [](\A t \in Tasks :
          /\ \A i \in DOMAIN task[t].deliveries :
               task[t].deliveries[i].text = task[t].message
          /\ \A i \in DOMAIN task[t].stdout : task[t].stdout[i] = task[t].message)
  /\ [][\A t \in Tasks, u \in Users :
          /\ StartsDispatch(t, u) =>
               /\ Fields \subseteq DOMAIN D(u)
               /\ D(u)["type"] \in FiveLabels
               /\ Len(strip(D(u)["description"])) >= 3
               /\ task'[t].message.plate = html_escape(D(u)["number"])
               /\ task'[t].message.issue_type = html_escape(D(u)["type"])
               /\ task'[t].message.description = html_escape(D(u)["description"])
               /\ Dn(u) = D(u)
          /\ task[t].message # NoMessage /\ task'[t].message # NoMessage =>
               task'[t].message = task[t].message]_vars

\* a request whose identifier needs escaping was handed to send_message
C20_Witness ==
  \E t \in Tasks :
    /\ SendTask(t) /\ task[t].deliveries # <<>>
    /\ task[t].message.plate = <<"A", "&", "a", "m", "p", ";">>

\* the message of slot u renders the session of user u as it is now
RendersSession(u) ==
  /\ StepOf(D(u)) = Step.CONFIRM
  /\ Fields \subseteq DOMAIN D(u)
  /\ task[u].message = build_dispatch_html(D(u), u)

\* what the handler of a "send" of user u does when it runs alone: while it is
\* suspended and when it has failed the session is the one it rendered; when
\* its completion reply has returned the session is empty
AsWhenAlone(u) ==
  task[u].message # NoMessage =>
    /\ task[u].user = u
    /\ task[u].pc # "done" => RendersSession(u)
    /\ task[u].pc = "done" =>
         IF SendFailed \in Range(task[u].out)
         THEN RendersSession(u)
         ELSE D(u) = EmptyDict /\ task[u].out = <<Done>>

\* C18: with the handlers of different users interleaved at their awaits and
\* the block-list fixed, every step changes the session and the handler call
\* of one user only, and the "send" of each user sees and leaves its session
\* as it does when it runs alone.
C18_Independent ==
  /\ [](\A u \in Users : AsWhenAlone(u))
  /\ [][\A u \in Users :
          (user_data'[u] # user_data[u] \/ task'[u] # task[u]) =>
            /\ task'[u].user = u
            /\ \A v \in Users \ {u} :
                 user_data'[v] = user_data[v] /\ task'[v] = task[v]]_vars

\* the "send" of one user has ended and cleared its session while the "send"
\* of another is suspended in its retry, its session still at CONFIRM
C18_Witness ==
  \E u \in Users, v \in Users :
    /\ u # v
    /\ task[u].pc = "done" /\ task[u].out = <<Done>> /\ D(u) = EmptyDict
    /\ task[v].pc = "retry" /\ StepOf(D(v)) = Step.CONFIRM

\* the session of the user of handler t is still the one t rendered and sent
StillDispatched(t) ==
  /\ StepOf(D(task[t].user)) = Step.CONFIRM
  /\ task[t].message = build_dispatch_html(D(task[t].user), task[t].user)

\* the completion reply of handler t returns in this step
Completes(t) == task[t].pc = "reply_done" /\ task'[t].pc = "done"

\* two handlers suspended at once have each had a send_message call return for
\* the same message of the same user
TwoDeliveries ==
  \E s \in Handlers, t \in Handlers :
    /\ s # t
    /\ Running(s) /\ Running(t)
    /\ task[s].user = task[t].user
    /\ task[s].message = task[t].message
    /\ OkDeliveries(s) # {} /\ OkDeliveries(t) # {}

====
